---- MODULE Spec2Model ----
(***************************************************************************)
(* A model of src/app.py: the route sampler and scorer, the route ranker,  *)
(* the travel-day selector and the route-proximity matcher.                *)
(*                                                                         *)
(* Each component is a small state machine over the shared variables; a    *)
(* component that a specification does not exercise stays in its idle      *)
(* state.  External services (Geoapify, AirNow) are inputs: each call      *)
(* draws its outcome from a bounded set of responses.                      *)
(***************************************************************************)
EXTENDS Integers, Sequences, FiniteSets, TLC

VARIABLES
    \* ---- sample_points called on its own
    sp_pc,          \* "idle" | "call" | "done"
    sp_coords,      \* argument coords
    sp_max,         \* argument max_samples
    sp_out,         \* returned list
    \* ---- plan_clean_routes_geoapify and the score_route call it is in
    pc,             \* "idle" | "geocode" | "route" | "lookup" | "scored" |
                    \* "returned" | "raised"
    idx,            \* position of the for loop in configs (1-based)
    scores,         \* the list scores
    r_coords,       \* score_route: argument coords (r["coords"])
    pts,            \* score_route: pts
    ptIdx,          \* score_route: position of the for loop in pts (1-based)
    aqis,           \* score_route: aqis
    ret,            \* what score_route returned (s in the caller)
    result,         \* what plan_clean_routes_geoapify returned
    err,            \* the exception that left plan_clean_routes_geoapify
    \* ---- history of the run (not program state)
    attempted,      \* names whose routing call was made
    routed,         \* names whose routing call succeeded
    okLookups,      \* name -> number of lookups that returned an index
    lookups,        \* results of the lookups of the current score_route call
    lookedUp,       \* the points those lookups were made for, in call order
    \* ---- suggest_best_travel_day and the airnow_forecast_zip call in it
    f_pc,           \* "idle" | "fetch" | "select" | "returned" | "raised"
    f_resp,         \* the forecast service's answer (input)
    look_ahead_days,\* argument look_ahead_days
    all_fc,         \* what airnow_forecast_zip returned
    f_plan,         \* what suggest_best_travel_day returned (Optional)
    f_err,          \* the exception that left suggest_best_travel_day
    \* ---- get_pediatric_care_stops / get_food_stops on a best route
    p_pc,           \* "idle" | "call" | "pediatric_done" | "food_done"
    p_coords,       \* best_route.coords
    p_resp,         \* the places service's answer (input)
    p_out,          \* the returned list
    p_err,          \* the exception that left the function
    \* ---- one browser session: script runs of the page, top to bottom
    s_pc,           \* "idle" | "top" | "handle" | "forecast_done" |
                    \* "routes_done" | "rerun" | "end"
    submitted,      \* the form's submit button in this script run
    last_plan,      \* st.session_state["last_plan"] (Optional)
    forecast_plan,  \* handler local forecast_plan (Optional)
    routes,         \* handler local routes
    s_err,          \* "none" | "render" | "forecast" | "routes": what raised
    \* ---- history of the script run (not program state)
    called,         \* kinds of external service called in this script run
    plan_at_start   \* last_plan when this script run started

sp_vars == <<sp_pc, sp_coords, sp_max, sp_out>>

rt_vars == <<pc, idx, scores, r_coords, pts, ptIdx, aqis, ret, result, err,
             attempted, routed, okLookups, lookups, lookedUp>>

fc_vars == <<f_pc, f_resp, look_ahead_days, all_fc, f_plan, f_err>>

pl_vars == <<p_pc, p_coords, p_resp, p_out, p_err>>

ss_vars == <<s_pc, submitted, last_plan, forecast_plan, routes, s_err, called,
             plan_at_start>>

vars == <<sp_vars, rt_vars, fc_vars, pl_vars, ss_vars>>

(***************************************************************************)
(* Generic helpers                                                         *)
(***************************************************************************)
\* Optional[T]: None is the empty sequence, a value x is <<x>>
None == <<>>

Some(x) == <<x>>

NoErr == "none"

Min2(a, b) == IF a <= b THEN a ELSE b

Max2(a, b) == IF a >= b THEN a ELSE b

RECURSIVE SeqSum(_)
SeqSum(s) == IF s = <<>> THEN 0 ELSE Head(s) + SeqSum(Tail(s))

RECURSIVE SeqMax(_)
SeqMax(s) == IF Len(s) = 1 THEN s[1] ELSE Max2(Head(s), SeqMax(Tail(s)))

\* s[:n] of Python
Take(s, n) == SubSeq(s, 1, Min2(n, Len(s)))

SeqRange(s) == {s[i] : i \in 1..Len(s)}

(***************************************************************************)
(* Polylines: a route of n points heading north, or one that revisits the  *)
(* same three points (a loop), as (lat, lon) pairs.                        *)
(***************************************************************************)
MaxPolyLen == 24

MaxBudget == 12

LinePolyline(n) == [i \in 1..n |-> <<i - 1, 0>>]

LoopPolyline(n) == [i \in 1..n |-> <<(i - 1) % 3, 1>>]

(***************************************************************************)
(* sample_points                                                           *)
(***************************************************************************)
\* range(0, n, step) as the list of 0-based indices
PyRange(n, step) == [k \in 1..((n + step - 1) \div step) |-> (k - 1) * step]

sample_points_untruncated(coords, max_samples) ==
    IF Len(coords) <= max_samples THEN coords
    ELSE LET step == Max2(1, Len(coords) \div max_samples)
             idxs == PyRange(Len(coords), step)
         IN  [k \in 1..Len(idxs) |-> coords[idxs[k] + 1]]

sample_points(coords, max_samples) ==
    IF Len(coords) <= max_samples THEN coords
    ELSE LET step == Max2(1, Len(coords) \div max_samples)
             idxs == PyRange(Len(coords), step)
         IN  Take([k \in 1..Len(idxs) |-> coords[idxs[k] + 1]], max_samples)

(***************************************************************************)
(* airnow_aqi: the observation service's answer for one point.             *)
(*   neterr       requests.get raises (timeout, connection error)          *)
(*   undecodable  r.json() raises                                          *)
(*   empty        the body decodes to an empty list / object / null        *)
(*   message      the body is an object carrying "Message"                 *)
(*   list         a list of observations, one per pollutant                *)
(* An observation's "AQI" is an integer, is missing (then 0 is used), or   *)
(* is not convertible by int().                                            *)
(***************************************************************************)
AQIValues == {10, 30, 50}

MaxItems == 2

Observations ==
    {[kind |-> "int", AQI |-> v] : v \in AQIValues}
        \cup {[kind |-> "missing", AQI |-> 0], [kind |-> "bad", AQI |-> 0]}

SeqsUpTo(S, n) == UNION {[1..k -> S] : k \in 1..n}

AirnowResponses ==
    {[kind |-> k, items |-> <<>>] :
        k \in {"neterr", "undecodable", "empty", "message"}}
        \cup {[kind |-> "list", items |-> it] : it \in SeqsUpTo(Observations, MaxItems)}

\* requests.get is outside every try block of airnow_aqi
airnow_aqi_raises(resp) == resp.kind = "neterr"

\* the value airnow_aqi returns when it returns
airnow_aqi(resp) ==
    IF resp.kind \in {"undecodable", "empty", "message"} THEN None
    ELSE IF \E i \in 1..Len(resp.items) : resp.items[i].kind = "bad" THEN None
    ELSE Some(SeqMax([i \in 1..Len(resp.items) |-> resp.items[i].AQI]))

\* what one call of airnow_aqi does in score_route: raise, or return a value
LookupOutcome(resp) ==
    IF airnow_aqi_raises(resp) THEN [raised |-> TRUE, aqi |-> None]
    ELSE [raised |-> FALSE, aqi |-> airnow_aqi(resp)]

LookupOutcomes == {LookupOutcome(resp) : resp \in AirnowResponses}

(***************************************************************************)
(* RouteScore and score_route.  avg_aqi is the exact quotient num / den;   *)
(* distance_km, duration_min and maps_url are copied from the router's     *)
(* answer and the labels and are read by no operation modelled here.       *)
(***************************************************************************)
max_samples_default == 10

mean(xs) == [num |-> SeqSum(xs), den |-> Len(xs)]

\* the mean taken over every sampled point instead of the successful samples
RouteScore_over_points(name, cs, xs) ==
    [name |-> name,
     avg_aqi |-> [num |-> SeqSum(xs),
                  den |-> Len(sample_points(cs, max_samples_default))],
     max_aqi |-> SeqMax(xs),
     num_samples |-> Len(xs),
     coords |-> cs]

RouteScore(name, cs, xs) ==
    [name |-> name,
     avg_aqi |-> mean(xs),
     max_aqi |-> SeqMax(xs),
     num_samples |-> Len(xs),
     coords |-> cs]

\* the return statements of score_route, given the collected aqis
score_route_result(name, cs, xs) ==
    IF xs = <<>> THEN None ELSE Some(RouteScore(name, cs, xs))

(***************************************************************************)
(* The ranking of plan_clean_routes_geoapify:                              *)
(* scores.sort(key=lambda s: (s.avg_aqi, s.max_aqi)), a stable sort.       *)
(***************************************************************************)
AvgLess(a, b) == a.avg_aqi.num * b.avg_aqi.den < b.avg_aqi.num * a.avg_aqi.den

AvgEq(a, b) == a.avg_aqi.num * b.avg_aqi.den = b.avg_aqi.num * a.avg_aqi.den

\* the key reduced to max_aqi
KeyLE_max_only(a, b) == a.max_aqi <= b.max_aqi

\* key(a) <= key(b) for the key (avg_aqi, max_aqi)
KeyLE(a, b) == AvgLess(a, b) \/ (AvgEq(a, b) /\ a.max_aqi <= b.max_aqi)

RECURSIVE InsertSorted(_, _)
InsertSorted(x, s) ==
    IF s = <<>> THEN <<x>>
    ELSE IF KeyLE(s[Len(s)], x) THEN Append(s, x)
         ELSE Append(InsertSorted(x, SubSeq(s, 1, Len(s) - 1)), s[Len(s)])

RECURSIVE SortScores(_)
SortScores(s) ==
    IF s = <<>> THEN <<>>
    ELSE InsertSorted(s[Len(s)], SortScores(SubSeq(s, 1, Len(s) - 1)))

configs == <<"Shortest", "Balanced", "Avoid highways">>

MaxRouteLen == 2

GeocodeOutcomes == {"ok", "notfound", "neterr"}

RoutesIdle ==
    /\ pc = "idle"
    /\ idx = 0
    /\ scores = <<>>
    /\ r_coords = <<>>
    /\ pts = <<>>
    /\ ptIdx = 0
    /\ aqis = <<>>
    /\ ret = None
    /\ result = <<>>
    /\ err = NoErr
    /\ attempted = {}
    /\ routed = {}
    /\ okLookups = [n \in SeqRange(configs) |-> 0]
    /\ lookups = <<>>
    /\ lookedUp = <<>>

(***************************************************************************)
(* airnow_forecast_zip.  Dates are day numbers.  A forecast item carries   *)
(* a date that parses (Some(d)) or does not (None: today is used) and an   *)
(* AQI that int() converts (Some(v)) or does not (None: int() raises).     *)
(* category and pollutant are copied from the item and read by nothing     *)
(* modelled here.                                                          *)
(***************************************************************************)
Today == 1

DateOffsets == {-1, 0, 2, 3}

ForecastAQIValues == {20, 40, 55}

MaxForecastItems == 3

MaxLookAhead == 2

ForecastItems ==
    [date : {None} \cup {Some(Today + o) : o \in DateOffsets},
     AQI : {None} \cup {Some(v) : v \in ForecastAQIValues}]

ForecastResponses ==
    {[kind |-> k, items |-> <<>>] :
        k \in {"neterr", "undecodable", "empty", "message"}}
        \cup {[kind |-> "list", items |-> it] :
                 it \in SeqsUpTo(ForecastItems, MaxForecastItems)}

\* lines 393-404: one forecast_days entry per item
forecast_day(item, today) ==
    [date |-> IF item.date = None THEN today ELSE item.date[1],
     aqi |-> item.AQI[1]]

forecast_days(items, today) ==
    [i \in 1..Len(items) |-> forecast_day(items[i], today)]

\* lines 408-411: by_date after the loop over fds, starting from by_date
merge_replaces_always(by_date, f) == TRUE

merge_replaces(by_date, f) ==
    f.date \notin DOMAIN by_date \/ f.aqi > by_date[f.date].aqi

RECURSIVE merge_by_date(_, _)
merge_by_date(fds, by_date) ==
    IF fds = <<>> THEN by_date
    ELSE LET f == Head(fds)
             nxt == IF merge_replaces(by_date, f)
                    THEN [d \in DOMAIN by_date \cup {f.date} |->
                              IF d = f.date THEN f ELSE by_date[d]]
                    ELSE by_date
         IN  merge_by_date(Tail(fds), nxt)

\* sorted(keys): the least key first
RECURSIVE sorted_keys(_)
sorted_keys(S) ==
    IF S = {} THEN <<>>
    ELSE LET lo == CHOOSE x \in S : \A y \in S : x <= y
         IN  <<lo>> \o sorted_keys(S \ {lo})

EmptyDict == [d \in {} |-> 0]

\* does airnow_forecast_zip raise on this answer
airnow_forecast_zip_raises(resp) ==
    \/ resp.kind \in {"neterr", "undecodable", "empty", "message"}
    \/ \E i \in 1..Len(resp.items) : resp.items[i].AQI = None

\* the list airnow_forecast_zip returns when it does not raise
airnow_forecast_zip(resp, today) ==
    LET by_date == merge_by_date(forecast_days(resp.items, today), EmptyDict)
        keys == sorted_keys(DOMAIN by_date)
    IN  [i \in 1..Len(keys) |-> by_date[keys[i]]]

(***************************************************************************)
(* suggest_best_travel_day                                                 *)
(***************************************************************************)
in_window_exclusive(f, today, cutoff) == today <= f.date /\ f.date < cutoff

in_window(f, today, cutoff) == today <= f.date /\ f.date <= cutoff

window_filter(fcs, today, cutoff) ==
    SelectSeq(fcs, LAMBDA f : in_window(f, today, cutoff))

\* min(fc, key=lambda x: x["aqi"]): the first entry with the least key
min_takes_over_ties(cur, f) == f.aqi <= cur.aqi

min_takes_over(cur, f) == f.aqi < cur.aqi

RECURSIVE min_by_aqi_from(_, _)
min_by_aqi_from(cur, rest) ==
    IF rest = <<>> THEN cur
    ELSE min_by_aqi_from(IF min_takes_over(cur, Head(rest)) THEN Head(rest)
                         ELSE cur,
                         Tail(rest))

min_by_aqi(fcs) == min_by_aqi_from(Head(fcs), Tail(fcs))

ForecastIdle ==
    /\ f_pc = "idle"
    /\ f_resp = [kind |-> "empty", items |-> <<>>]
    /\ look_ahead_days = 0
    /\ all_fc = <<>>
    /\ f_plan = None
    /\ f_err = NoErr

(***************************************************************************)
(* The places service's answer and _places_along_route.                    *)
(*   neterr       requests.get raises                                      *)
(*   undecodable  r.json() raises                                          *)
(*   not_object   the body decodes to something that is no JSON object     *)
(*                (a list, a string, null): data.get is no method of it    *)
(*   object       an object; features is its "features" list (empty when   *)
(*                the key is missing)                                      *)
(* A feature's geometry is a point ("point"), has no usable coordinates    *)
(* ("nocoords") or is null ("null": geom.get is no method of None).        *)
(* dist is LineString.distance of the point, an input here.  A place name  *)
(* is a text and a number, "City Hospital 3" being ("City Hospital", 3).   *)
(***************************************************************************)
PlaceName(text, no) == [text |-> text, no |-> no]

UnnamedPlace == PlaceName("Unnamed place", 0)

Feature(name, line1, formatted, cats, dist, rating, geometry) ==
    [name |-> name, address_line1 |-> line1, formatted |-> formatted,
     categories |-> cats, dist |-> dist, rating |-> rating,
     popularity |-> None, geometry |-> geometry]

MaxPedi == 4

MaxHosp == 12

MaxDoc == 12

\* every second place of a group is rated, by its number
GroupRating(i) == IF i % 2 = 0 THEN Some(i) ELSE None

\* nP places named for children, nH hospitals / clinics, nD doctors, in the
\* order the service lists them
PediGroup(nP, pcat, dist) ==
    [i \in 1..nP |->
        Feature(Some(PlaceName("Kids First Clinic", i)), None, "", pcat, dist,
                GroupRating(i), "point")]

HospGroup(nH, dup, haddr, dist) ==
    [i \in 1..nH |->
        Feature(Some(PlaceName("City Hospital", IF dup THEN (i + 1) \div 2 ELSE i)),
                None,
                IF i = 1 THEN haddr ELSE "",
                IF i % 2 = 1 THEN "healthcare.hospital" ELSE "healthcare.clinic",
                dist, GroupRating(i), "point")]

DocGroup(nD, dist) ==
    [i \in 1..nD |->
        Feature(Some(PlaceName("Dr. Lee", i)), None, "", "healthcare.doctor",
                dist, GroupRating(i), "point")]

ExtraFeatures(extra) ==
    CASE extra = "none" -> <<>>
      [] extra = "nocoords" ->
            << Feature(Some(PlaceName("No Point Clinic", 1)), None, "",
                       "healthcare.clinic", 0, None, "nocoords") >>
      [] extra = "unnamed" ->
            << Feature(None, None, "", "healthcare.hospital", 1, None, "point"),
               Feature(None, Some(PlaceName("5 Main St", 1)), "",
                       "healthcare.clinic", 1, None, "point"),
               Feature(None, None, "", "healthcare.clinic", 1, Some(3), "point") >>
      [] extra = "null" ->
            << Feature(Some(PlaceName("Broken", 1)), None, "",
                       "healthcare.clinic", 0, None, "null") >>

PlacesFeatureLists ==
    {ExtraFeatures(extra)
        \o PediGroup(nP, pcat, IF near THEN 1 ELSE 3)
        \o HospGroup(nH, dup, haddr, 2)
        \o DocGroup(nD, IF near THEN 3 ELSE 1) :
        extra \in {"none", "nocoords", "unnamed", "null"},
        nP \in 0..MaxPedi,
        pcat \in {"healthcare.clinic", "healthcare.doctor"},
        near \in BOOLEAN,
        nH \in 0..MaxHosp,
        dup \in BOOLEAN,
        haddr \in {"", "1 Children's Way"},
        nD \in {0, MaxDoc}}

PlacesResponses ==
    {[kind |-> k, features |-> <<>>] : k \in {"neterr", "undecodable", "not_object"}}
        \cup {[kind |-> "object", features |-> fs] : fs \in PlacesFeatureLists}

\* lines 279-296: the place built from a feature
place_of(feat) ==
    [name |-> IF feat.name # None THEN feat.name[1]
              ELSE IF feat.address_line1 # None THEN feat.address_line1[1]
              ELSE UnnamedPlace,
     address |-> feat.formatted,
     distance_km |-> feat.dist * 111,
     rating |-> IF feat.rating # None THEN feat.rating ELSE feat.popularity,
     categories |-> feat.categories]

\* lines 262-296: the loop over features
places_built(features) ==
    LET kept == SelectSeq(features, LAMBDA f : f.geometry # "nocoords")
    IN  [i \in 1..Len(kept) |-> place_of(kept[i])]

\* lines 299-304: key(a) <= key(b) for (distance_km, -(rating or 0))
rating_or_0(p) == IF p.rating # None THEN p.rating[1] ELSE 0

place_key_le(a, b) ==
    \/ a.distance_km < b.distance_km
    \/ /\ a.distance_km = b.distance_km
       /\ rating_or_0(a) >= rating_or_0(b)

RECURSIVE insert_place(_, _)
insert_place(x, s) ==
    IF s = <<>> THEN <<x>>
    ELSE IF place_key_le(s[Len(s)], x) THEN Append(s, x)
         ELSE Append(insert_place(x, SubSeq(s, 1, Len(s) - 1)), s[Len(s)])

RECURSIVE sort_places(_)
sort_places(s) ==
    IF s = <<>> THEN <<>>
    ELSE insert_place(s[Len(s)], sort_places(SubSeq(s, 1, Len(s) - 1)))

\* does _places_along_route raise: data.get on a non-object (line 254), or
\* geom.get on a null geometry (line 265)
places_along_route_raises(coords, resp) ==
    /\ coords # <<>>
    /\ \/ resp.kind = "not_object"
       \/ /\ resp.kind = "object"
          /\ \E i \in 1..Len(resp.features) : resp.features[i].geometry = "null"

\* the list _places_along_route returns when it does not raise
places_along_route(coords, resp, max_results) ==
    IF coords = <<>> THEN <<>>
    ELSE IF resp.kind \in {"neterr", "undecodable"} THEN <<>>
    ELSE IF resp.features = <<>> THEN <<>>
    ELSE Take(sort_places(places_built(resp.features)), max_results)

(***************************************************************************)
(* get_pediatric_care_stops and get_food_stops.  The keyword test of       *)
(* is_pediatric and the substring tests on categories are tables over the  *)
(* texts drawn above; raw["categories"] is taken to be one string, the     *)
(* type the default "" of line 336 gives it.                               *)
(***************************************************************************)
pediatric_max_results == 25

food_max_results == 20

fallback_threshold == 3

pediatric_cap == 10

PediatricNameTexts == {"Kids First Clinic"}

PediatricAddresses == {"1 Children's Way"}

HospitalOrClinicCategories == {"healthcare.hospital", "healthcare.clinic"}

is_pediatric(p) ==
    p.name.text \in PediatricNameTexts \/ p.address \in PediatricAddresses

is_fallback(p) == p.categories \in HospitalOrClinicCategories

needs_fallback_at_threshold(n) == n <= fallback_threshold

needs_fallback(n) == n < fallback_threshold

\* lines 340-345: the loop over pedi + fallback
RECURSIVE dedupe_by_name(_, _, _)
dedupe_by_name(ps, seen, merged) ==
    IF ps = <<>> THEN merged
    ELSE IF Head(ps).name \notin seen
         THEN dedupe_by_name(Tail(ps), seen \cup {Head(ps).name},
                             Append(merged, Head(ps)))
         ELSE dedupe_by_name(Tail(ps), seen, merged)

\* lines 328-348, given all_places
pediatric_from(all_places) ==
    LET pedi == SelectSeq(all_places, is_pediatric)
        fallback == SelectSeq(all_places, is_fallback)
    IN  IF needs_fallback(Len(pedi))
        THEN Take(dedupe_by_name(pedi \o fallback, {}, <<>>), pediatric_cap)
        ELSE Take(pedi, pediatric_cap)

PlacesIdle ==
    /\ p_pc = "idle"
    /\ p_coords = <<>>
    /\ p_resp = [kind |-> "neterr", features |-> <<>>]
    /\ p_out = <<>>
    /\ p_err = NoErr

(***************************************************************************)
(* The page script (lines 711-759), run top to bottom on every             *)
(* interaction: the calls of the submission handler as functions of what   *)
(* the external services answer, and the plan dict it caches.              *)
(***************************************************************************)
MaxSessionItems == 2

\* forecast items of a session: yesterday, today or in two days, AQI 20 or 40
SessionForecastItems ==
    {it \in ForecastItems :
        /\ it.date \in {Some(Today - 1), Some(Today), Some(Today + 2)}
        /\ it.AQI \in {Some(20), Some(40)}}

SessionForecastResponses ==
    {[kind |-> "neterr", items |-> <<>>]}
        \cup {[kind |-> "list", items |-> it] :
                 it \in SeqsUpTo(SessionForecastItems, MaxSessionItems)}

\* suggest_best_travel_day: it raises, or returns {"candidates", "best"}
suggest_best_travel_day(resp, days, today) ==
    IF airnow_forecast_zip_raises(resp)
    THEN [raised |-> TRUE, plan |-> None]
    ELSE LET fc == window_filter(airnow_forecast_zip(resp, today), today,
                                 today + days)
         IN  IF fc = <<>>
             THEN [raised |-> TRUE, plan |-> None]
             ELSE [raised |-> FALSE,
                   plan |-> Some([candidates |-> fc, best |-> min_by_aqi(fc)])]

SessionForecastOutcomes ==
    {suggest_best_travel_day(resp, days, Today) :
        resp \in SessionForecastResponses, days \in 1..MaxLookAhead}

\* what one pollution lookup of a session does: it raises, or returns
\* None, 10 or 50
SessionLookupOutcomes ==
    {o \in LookupOutcomes : o.raised \/ o.aqi \in {None, Some(10), Some(50)}}

\* one alternative of a session: geoapify_route raised, or it returned a
\* one-point polyline whose lookup answers outs[1]
SessionAlternatives ==
    {[routed |-> FALSE, coords |-> <<>>, outs |-> <<>>]}
        \cup {[routed |-> TRUE, coords |-> LinePolyline(1), outs |-> <<o>>] :
                 o \in SessionLookupOutcomes}

\* the loop of score_route over the lookups of its sampled points: the
\* collected aqis, or None when a lookup raised
RECURSIVE collect_aqis(_, _)
collect_aqis(outs, xs) ==
    IF outs = <<>> THEN Some(xs)
    ELSE IF Head(outs).raised THEN None
    ELSE collect_aqis(Tail(outs),
                      IF Head(outs).aqi # None
                      THEN Append(xs, Head(outs).aqi[1])
                      ELSE xs)

\* score_route(coords, name), outs[k] being the lookup of the k-th sample
score_route(name, coords, outs) ==
    LET n == Len(sample_points(coords, max_samples_default))
        got == collect_aqis(Take(outs, n), <<>>)
    IN  IF got = None
        THEN [raised |-> TRUE, score |-> None]
        ELSE [raised |-> FALSE,
              score |-> score_route_result(name, coords, got[1])]

\* lines 192-213: the loop over configs from the i-th, then the check and
\* the sort; calls are the services called so far
RECURSIVE plan_routes_from(_, _, _, _)
plan_routes_from(i, alts, acc, calls) ==
    IF i > Len(configs)
    THEN IF acc = <<>>
         THEN [raised |-> TRUE, routes |-> <<>>, calls |-> calls]
         ELSE [raised |-> FALSE, routes |-> SortScores(acc), calls |-> calls]
    ELSE IF ~alts[i].routed
    THEN plan_routes_from(i + 1, alts, acc, calls \cup {"route"})
    ELSE LET s == score_route(configs[i], alts[i].coords, alts[i].outs)
             now == calls \cup {"route", "observe"}
         IN  IF s.raised
             THEN [raised |-> TRUE, routes |-> <<>>, calls |-> now]
             ELSE plan_routes_from(i + 1, alts,
                                   IF s.score # None
                                   THEN Append(acc, s.score[1])
                                   ELSE acc,
                                   now)

\* plan_clean_routes_geoapify: o and d are the two geocoding outcomes
plan_clean_routes_geoapify(o, d, alts) ==
    IF o # "ok" \/ d # "ok"
    THEN [raised |-> TRUE, routes |-> <<>>, calls |-> {"geocode"}]
    ELSE plan_routes_from(1, alts, <<>>, {"geocode"})

SessionRouteOutcomes ==
    {plan_clean_routes_geoapify(o, d, alts) :
        o \in GeocodeOutcomes, d \in GeocodeOutcomes,
        alts \in [1..Len(configs) -> SessionAlternatives]}

\* lines 748-753 with best_route taken from the end of routes
make_plan_best_last(fp, rs) ==
    [forecast_candidates |-> fp.candidates,
     forecast_best_day |-> fp.best,
     routes |-> rs,
     best_route |-> rs[Len(rs)]]

\* lines 748-753: the plan dict
make_plan(fp, rs) ==
    [forecast_candidates |-> fp.candidates,
     forecast_best_day |-> fp.best,
     routes |-> rs,
     best_route |-> rs[1]]

\* what the places search answers while a cached plan is rendered
SessionPlacesResponses ==
    {[kind |-> k, features |-> <<>>] :
        k \in {"neterr", "not_object", "object"}}

\* render_plan, lines 514-515: get_pediatric_care_stops then get_food_stops,
\* one places request each unless the first one raised
render_plan_raises(plan, pedi_resp, food_resp) ==
    \/ places_along_route_raises(plan.best_route.coords, pedi_resp)
    \/ places_along_route_raises(plan.best_route.coords, food_resp)

\* the services render_plan calls: _places_along_route requests the places
\* search whenever the polyline is not empty
render_plan_calls(plan) ==
    IF plan.best_route.coords # <<>> THEN {"places"} ELSE {}

SessionIdle ==
    /\ s_pc = "idle"
    /\ submitted = FALSE
    /\ last_plan = None
    /\ forecast_plan = None
    /\ routes = <<>>
    /\ s_err = NoErr
    /\ called = {}
    /\ plan_at_start = None

SampleIdle ==
    /\ sp_pc = "idle"
    /\ sp_coords = <<>>
    /\ sp_max = 0
    /\ sp_out = <<>>

SampleInit ==
    /\ sp_pc = "call"
    /\ \E n \in 0..MaxPolyLen :
           sp_coords \in {LinePolyline(n), LoopPolyline(n)}
    /\ sp_max \in 1..MaxBudget
    /\ sp_out = <<>>
    /\ RoutesIdle
    /\ ForecastIdle
    /\ PlacesIdle
    /\ SessionIdle

CallSamplePoints ==
    /\ sp_pc = "call"
    /\ sp_out' = sample_points(sp_coords, sp_max)
    /\ sp_pc' = "done"
    /\ UNCHANGED <<sp_coords, sp_max>>
    /\ UNCHANGED <<rt_vars, fc_vars, pl_vars, ss_vars>>

SampleNext == CallSamplePoints

SpecSample == SampleInit /\ [][SampleNext]_vars

(***************************************************************************)
(* plan_clean_routes_geoapify, one action per external call or return.     *)
(***************************************************************************)
RoutesInit ==
    /\ pc = "geocode"
    /\ idx = 0
    /\ scores = <<>>
    /\ r_coords = <<>>
    /\ pts = <<>>
    /\ ptIdx = 0
    /\ aqis = <<>>
    /\ ret = None
    /\ result = <<>>
    /\ err = NoErr
    /\ attempted = {}
    /\ routed = {}
    /\ okLookups = [n \in SeqRange(configs) |-> 0]
    /\ lookups = <<>>
    /\ lookedUp = <<>>
    /\ SampleIdle
    /\ ForecastIdle
    /\ PlacesIdle
    /\ SessionIdle

\* the two geoapify_geocode calls; either may raise, which leaves the function
PlanGeocode ==
    /\ pc = "geocode"
    /\ \E o \in GeocodeOutcomes, d \in GeocodeOutcomes :
          IF o = "ok" /\ d = "ok"
          THEN /\ pc' = "route"
               /\ idx' = 1
               /\ err' = err
          ELSE /\ pc' = "raised"
               /\ idx' = idx
               /\ err' = "geocode"
    /\ UNCHANGED <<scores, r_coords, pts, ptIdx, aqis, ret, result,
                   attempted, routed, okLookups, lookups, lookedUp>>
    /\ UNCHANGED <<sp_vars, fc_vars, pl_vars, ss_vars>>

\* geoapify_route raised: except Exception: continue
RouteFails ==
    /\ pc = "route"
    /\ idx <= Len(configs)
    /\ attempted' = attempted \cup {configs[idx]}
    /\ idx' = idx + 1
    /\ UNCHANGED <<pc, scores, r_coords, pts, ptIdx, aqis, ret, result, err,
                   routed, okLookups, lookups, lookedUp>>
    /\ UNCHANGED <<sp_vars, fc_vars, pl_vars, ss_vars>>

\* geoapify_route returned a non-empty polyline; score_route starts
RouteSucceeds ==
    /\ pc = "route"
    /\ idx <= Len(configs)
    /\ \E n \in 1..MaxRouteLen :
          /\ r_coords' = LinePolyline(n)
          /\ pts' = sample_points(LinePolyline(n), max_samples_default)
    /\ aqis' = <<>>
    /\ ptIdx' = 1
    /\ lookups' = <<>>
    /\ lookedUp' = <<>>
    /\ attempted' = attempted \cup {configs[idx]}
    /\ routed' = routed \cup {configs[idx]}
    /\ pc' = "lookup"
    /\ UNCHANGED <<idx, scores, ret, result, err, okLookups>>
    /\ UNCHANGED <<sp_vars, fc_vars, pl_vars, ss_vars>>

\* one iteration of "for lat, lon in pts": aqi = airnow_aqi(lat, lon)
Lookup ==
    /\ pc = "lookup"
    /\ ptIdx <= Len(pts)
    /\ \E out \in LookupOutcomes :
          /\ lookups' = Append(lookups, out)
          /\ lookedUp' = Append(lookedUp, pts[ptIdx])
          /\ IF out.raised
             THEN /\ pc' = "raised"
                  /\ err' = "lookup"
                  /\ UNCHANGED <<ptIdx, aqis, okLookups>>
             ELSE /\ aqis' = IF out.aqi # None THEN Append(aqis, out.aqi[1])
                             ELSE aqis
                  /\ okLookups' =
                         IF out.aqi # None
                         THEN [okLookups EXCEPT ![configs[idx]] = @ + 1]
                         ELSE okLookups
                  /\ ptIdx' = ptIdx + 1
                  /\ UNCHANGED <<pc, err>>
    /\ UNCHANGED <<idx, scores, r_coords, pts, ret, result, attempted, routed>>
    /\ UNCHANGED <<sp_vars, fc_vars, pl_vars, ss_vars>>

\* the loop over pts is over: score_route returns None or a RouteScore
ScoreReturn ==
    /\ pc = "lookup"
    /\ ptIdx > Len(pts)
    /\ ret' = score_route_result(configs[idx], r_coords, aqis)
    /\ pc' = "scored"
    /\ UNCHANGED <<idx, scores, r_coords, pts, ptIdx, aqis, result, err,
                   attempted, routed, okLookups, lookups, lookedUp>>
    /\ UNCHANGED <<sp_vars, fc_vars, pl_vars, ss_vars>>

\* if s: scores.append(s); the locals of score_route are gone
PlanCollect ==
    /\ pc = "scored"
    /\ scores' = IF ret # None THEN Append(scores, ret[1]) ELSE scores
    /\ idx' = idx + 1
    /\ pc' = "route"
    /\ ret' = None
    /\ r_coords' = <<>>
    /\ pts' = <<>>
    /\ ptIdx' = 0
    /\ aqis' = <<>>
    /\ lookups' = <<>>
    /\ lookedUp' = <<>>
    /\ UNCHANGED <<result, err, attempted, routed, okLookups>>
    /\ UNCHANGED <<sp_vars, fc_vars, pl_vars, ss_vars>>

\* after the loop: raise if nothing was scored, else sort and return
PlanFinish ==
    /\ pc = "route"
    /\ idx > Len(configs)
    /\ IF scores = <<>>
       THEN /\ pc' = "raised"
            /\ err' = "noscores"
            /\ result' = result
       ELSE /\ pc' = "returned"
            /\ err' = err
            /\ result' = SortScores(scores)
    /\ UNCHANGED <<idx, scores, r_coords, pts, ptIdx, aqis, ret,
                   attempted, routed, okLookups, lookups, lookedUp>>
    /\ UNCHANGED <<sp_vars, fc_vars, pl_vars, ss_vars>>

RoutesNext ==
    \/ PlanGeocode
    \/ RouteFails
    \/ RouteSucceeds
    \/ Lookup
    \/ ScoreReturn
    \/ PlanCollect
    \/ PlanFinish

SpecRoutes == RoutesInit /\ [][RoutesNext]_vars

(***************************************************************************)
(* One call of score_route on a polyline of any length up to MaxPolyLen    *)
(***************************************************************************)
\* what one pollution lookup of such a call does: it raises, or returns
\* None or 50
ScoreLookupOutcomes ==
    {o \in LookupOutcomes : o.raised \/ o.aqi \in {None, Some(50)}}

\* score_route was just called for one of the alternatives (line 198):
\* pts = sample_points(coords, max_samples), aqis = []
ScoreInit ==
    /\ pc = "lookup"
    /\ idx \in 1..Len(configs)
    /\ scores = <<>>
    /\ \E n \in 1..MaxPolyLen :
          /\ r_coords = LinePolyline(n)
          /\ pts = sample_points(LinePolyline(n), max_samples_default)
    /\ ptIdx = 1
    /\ aqis = <<>>
    /\ ret = None
    /\ result = <<>>
    /\ err = NoErr
    /\ attempted = {configs[idx]}
    /\ routed = {configs[idx]}
    /\ okLookups = [n \in SeqRange(configs) |-> 0]
    /\ lookups = <<>>
    /\ lookedUp = <<>>
    /\ SampleIdle
    /\ ForecastIdle
    /\ PlacesIdle
    /\ SessionIdle

\* one iteration of "for lat, lon in pts": aqi = airnow_aqi(lat, lon)
ScoreLookup ==
    /\ pc = "lookup"
    /\ ptIdx <= Len(pts)
    /\ \E out \in ScoreLookupOutcomes :
          /\ lookups' = Append(lookups, out)
          /\ lookedUp' = Append(lookedUp, pts[ptIdx])
          /\ IF out.raised
             THEN /\ pc' = "raised"
                  /\ err' = "lookup"
                  /\ UNCHANGED <<ptIdx, aqis, okLookups>>
             ELSE /\ aqis' = IF out.aqi # None THEN Append(aqis, out.aqi[1])
                             ELSE aqis
                  /\ okLookups' =
                         IF out.aqi # None
                         THEN [okLookups EXCEPT ![configs[idx]] = @ + 1]
                         ELSE okLookups
                  /\ ptIdx' = ptIdx + 1
                  /\ UNCHANGED <<pc, err>>
    /\ UNCHANGED <<idx, scores, r_coords, pts, ret, result, attempted, routed>>
    /\ UNCHANGED <<sp_vars, fc_vars, pl_vars, ss_vars>>

ScoreNext ==
    \/ ScoreLookup
    \/ ScoreReturn

SpecScore == ScoreInit /\ [][ScoreNext]_vars

(***************************************************************************)
(* suggest_best_travel_day(zip_code, look_ahead_days)                      *)
(***************************************************************************)
ForecastInit ==
    /\ f_pc = "fetch"
    /\ f_resp \in ForecastResponses
    /\ look_ahead_days \in 1..MaxLookAhead
    /\ all_fc = <<>>
    /\ f_plan = None
    /\ f_err = NoErr
    /\ SampleIdle
    /\ RoutesIdle
    /\ PlacesIdle
    /\ SessionIdle

\* all_fc = airnow_forecast_zip(zip_code); its exceptions are not caught
ForecastFetch ==
    /\ f_pc = "fetch"
    /\ IF airnow_forecast_zip_raises(f_resp)
       THEN /\ f_pc' = "raised"
            /\ f_err' = "forecast"
            /\ all_fc' = all_fc
       ELSE /\ f_pc' = "select"
            /\ f_err' = f_err
            /\ all_fc' = airnow_forecast_zip(f_resp, Today)
    /\ UNCHANGED <<f_resp, look_ahead_days, f_plan>>
    /\ UNCHANGED <<sp_vars, rt_vars, pl_vars, ss_vars>>

\* lines 419-427: the window filter, the empty check and the minimum
SelectDay ==
    /\ f_pc = "select"
    /\ LET today == Today
           cutoff == today + look_ahead_days
           fc == window_filter(all_fc, today, cutoff)
       IN  IF fc = <<>>
           THEN /\ f_pc' = "raised"
                /\ f_err' = "window"
                /\ f_plan' = f_plan
           ELSE /\ f_pc' = "returned"
                /\ f_err' = f_err
                /\ f_plan' = Some([candidates |-> fc, best |-> min_by_aqi(fc)])
    /\ UNCHANGED <<f_resp, look_ahead_days, all_fc>>
    /\ UNCHANGED <<sp_vars, rt_vars, pl_vars, ss_vars>>

ForecastNext ==
    \/ ForecastFetch
    \/ SelectDay

SpecForecast == ForecastInit /\ [][ForecastNext]_vars

(***************************************************************************)
(* get_pediatric_care_stops(best_route) and get_food_stops(best_route)     *)
(***************************************************************************)
PlacesInit ==
    /\ p_pc = "call"
    /\ p_coords \in {LinePolyline(0), LinePolyline(2)}
    /\ p_resp \in PlacesResponses
    /\ p_out = <<>>
    /\ p_err = NoErr
    /\ SampleIdle
    /\ RoutesIdle
    /\ ForecastIdle
    /\ SessionIdle

GetPediatricCareStops ==
    /\ p_pc = "call"
    /\ p_pc' = "pediatric_done"
    /\ IF places_along_route_raises(p_coords, p_resp)
       THEN /\ p_err' = "places"
            /\ p_out' = p_out
       ELSE /\ p_err' = p_err
            /\ p_out' = pediatric_from(
                   places_along_route(p_coords, p_resp, pediatric_max_results))
    /\ UNCHANGED <<p_coords, p_resp>>
    /\ UNCHANGED <<sp_vars, rt_vars, fc_vars, ss_vars>>

GetFoodStops ==
    /\ p_pc = "call"
    /\ p_pc' = "food_done"
    /\ IF places_along_route_raises(p_coords, p_resp)
       THEN /\ p_err' = "places"
            /\ p_out' = p_out
       ELSE /\ p_err' = p_err
            /\ p_out' = places_along_route(p_coords, p_resp, food_max_results)
    /\ UNCHANGED <<p_coords, p_resp>>
    /\ UNCHANGED <<sp_vars, rt_vars, fc_vars, ss_vars>>

PlacesNext ==
    \/ GetPediatricCareStops
    \/ GetFoodStops

SpecPlaces == PlacesInit /\ [][PlacesNext]_vars

(***************************************************************************)
(* A browser session: script runs of the page, one after the other         *)
(***************************************************************************)
\* the first script run of a session: nothing cached, nothing submitted
SessionInit ==
    /\ s_pc = "top"
    /\ submitted = FALSE
    /\ last_plan = None
    /\ forecast_plan = None
    /\ routes = <<>>
    /\ s_err = NoErr
    /\ called = {}
    /\ plan_at_start = None
    /\ SampleIdle
    /\ RoutesIdle
    /\ ForecastIdle
    /\ PlacesIdle

\* line 734 when "last_plan" is not in st.session_state
SkipRedisplay ==
    /\ s_pc = "top"
    /\ last_plan = None
    /\ s_pc' = "handle"
    /\ UNCHANGED <<submitted, last_plan, forecast_plan, routes, s_err, called,
                   plan_at_start>>
    /\ UNCHANGED <<sp_vars, rt_vars, fc_vars, pl_vars>>

\* lines 734-739: render_plan(st.session_state["last_plan"]); an exception
\* of render_plan ends the script run before the submission is handled
Redisplay ==
    /\ s_pc = "top"
    /\ last_plan # None
    /\ called' = called \cup render_plan_calls(last_plan[1])
    /\ \E pedi_resp \in SessionPlacesResponses,
          food_resp \in SessionPlacesResponses :
          IF render_plan_raises(last_plan[1], pedi_resp, food_resp)
          THEN /\ s_pc' = "end"
               /\ s_err' = "render"
          ELSE /\ s_pc' = "handle"
               /\ s_err' = s_err
    /\ UNCHANGED <<submitted, last_plan, forecast_plan, routes, plan_at_start>>
    /\ UNCHANGED <<sp_vars, rt_vars, fc_vars, pl_vars>>

\* line 742 when the form was not submitted: the script run is over
NoSubmission ==
    /\ s_pc = "handle"
    /\ ~submitted
    /\ s_pc' = "end"
    /\ UNCHANGED <<submitted, last_plan, forecast_plan, routes, s_err, called,
                   plan_at_start>>
    /\ UNCHANGED <<sp_vars, rt_vars, fc_vars, pl_vars>>

\* line 745: forecast_plan = suggest_best_travel_day(home_zip,
\* look_ahead_days); its exception goes to the except clause (line 758)
HandlerForecast ==
    /\ s_pc = "handle"
    /\ submitted
    /\ called' = called \cup {"forecast"}
    /\ \E o \in SessionForecastOutcomes :
          IF o.raised
          THEN /\ s_pc' = "end"
               /\ s_err' = "forecast"
               /\ forecast_plan' = forecast_plan
          ELSE /\ s_pc' = "forecast_done"
               /\ s_err' = s_err
               /\ forecast_plan' = o.plan
    /\ UNCHANGED <<submitted, last_plan, routes, plan_at_start>>
    /\ UNCHANGED <<sp_vars, rt_vars, fc_vars, pl_vars>>

\* line 746: routes = plan_clean_routes_geoapify(origin, destination); its
\* exception goes to the except clause (line 758)
HandlerRoutes ==
    /\ s_pc = "forecast_done"
    /\ \E o \in SessionRouteOutcomes :
          /\ called' = called \cup o.calls
          /\ IF o.raised
             THEN /\ s_pc' = "end"
                  /\ s_err' = "routes"
                  /\ routes' = routes
             ELSE /\ s_pc' = "routes_done"
                  /\ s_err' = s_err
                  /\ routes' = o.routes
    /\ UNCHANGED <<submitted, last_plan, forecast_plan, plan_at_start>>
    /\ UNCHANGED <<sp_vars, rt_vars, fc_vars, pl_vars>>

\* lines 748-755: the plan dict is built and cached
HandlerWrite ==
    /\ s_pc = "routes_done"
    /\ last_plan' = Some(make_plan(forecast_plan[1], routes))
    /\ s_pc' = "rerun"
    /\ UNCHANGED <<submitted, forecast_plan, routes, s_err, called,
                   plan_at_start>>
    /\ UNCHANGED <<sp_vars, rt_vars, fc_vars, pl_vars>>

\* line 756: st.rerun() starts the script again, the button not pressed
Rerun ==
    /\ s_pc = "rerun"
    /\ s_pc' = "top"
    /\ submitted' = FALSE
    /\ forecast_plan' = None
    /\ routes' = <<>>
    /\ s_err' = NoErr
    /\ called' = {}
    /\ plan_at_start' = last_plan
    /\ UNCHANGED last_plan
    /\ UNCHANGED <<sp_vars, rt_vars, fc_vars, pl_vars>>

\* the user changes a widget (submitted = False) or presses the form's
\* button (submitted = True): the script runs again from the top
NewRun ==
    /\ s_pc = "end"
    /\ s_pc' = "top"
    /\ submitted' \in BOOLEAN
    /\ forecast_plan' = None
    /\ routes' = <<>>
    /\ s_err' = NoErr
    /\ called' = {}
    /\ plan_at_start' = last_plan
    /\ UNCHANGED last_plan
    /\ UNCHANGED <<sp_vars, rt_vars, fc_vars, pl_vars>>

SessionNext ==
    \/ SkipRedisplay
    \/ Redisplay
    \/ NoSubmission
    \/ HandlerForecast
    \/ HandlerRoutes
    \/ HandlerWrite
    \/ Rerun
    \/ NewRun

SpecSession == SessionInit /\ [][SessionNext]_vars

(***************************************************************************)
(* Reading the history of a plan_clean_routes_geoapify run                 *)
(***************************************************************************)
\* the alternatives that were routed and got at least one pollution sample
ScoredSet == {n \in routed : okLookups[n] >= 1}

\* the indices returned by the lookups of the current score_route call
SuccessfulSamples ==
    LET ok == SelectSeq(lookups, LAMBDA l : ~l.raised /\ l.aqi # None)
    IN  [i \in 1..Len(ok) |-> ok[i].aqi[1]]

PlanOver == pc \in {"returned", "raised"}

(***************************************************************************)
(* C1: the list plan_clean_routes_geoapify returns holds the scored        *)
(* routes ordered by (avg_aqi, then max_aqi) ascending, so its first entry *)
(* has the least avg_aqi of all of them.                                   *)
(***************************************************************************)
C1_Ranked ==
    pc = "returned" =>
        /\ Len(result) = Len(scores)
        /\ SeqRange(result) = SeqRange(scores)
        /\ \A i \in 1..(Len(result) - 1) :
               \/ AvgLess(result[i], result[i + 1])
               \/ /\ AvgEq(result[i], result[i + 1])
                  /\ result[i].max_aqi <= result[i + 1].max_aqi
        /\ \A j \in 1..Len(scores) : ~AvgLess(scores[j], result[1])

\* three scored routes that the sort puts in the reverse of the configured
\* order, the last two tied on avg_aqi and ordered by max_aqi
C1_Witness ==
    /\ pc = "returned"
    /\ Len(result) = 3
    /\ result[1].name = "Avoid highways"
    /\ result[2].name = "Balanced"
    /\ result[3].name = "Shortest"
    /\ AvgLess(result[1], result[2])
    /\ AvgEq(result[2], result[3])
    /\ result[2].max_aqi < result[3].max_aqi

(***************************************************************************)
(* C2: whatever the routing and sampling outcomes of the three             *)
(* alternatives, plan_clean_routes_geoapify tries every alternative,       *)
(* returns exactly one RouteScore per alternative that was routed and got  *)
(* a pollution sample, and raises if and only if there is none.            *)
(***************************************************************************)
C2_OnePerScoredAlternative ==
    /\ (PlanOver /\ err # "geocode" => attempted = SeqRange(configs))
    /\ (pc = "returned" =>
            /\ {result[i].name : i \in 1..Len(result)} = ScoredSet
            /\ Len(result) = Cardinality(ScoredSet))
    /\ (PlanOver => (pc = "raised" <=> ScoredSet = {}))

(***************************************************************************)
(* C3: a lookup that fails or has no data never raises into score_route    *)
(* and only drops its point; score_route returns None exactly when no      *)
(* lookup succeeded, else a RouteScore whose num_samples is the number of  *)
(* successful lookups; every RouteScore has num_samples >= 1.              *)
(***************************************************************************)
C3_LookupFailuresDropped ==
    /\ \A i \in 1..Len(lookups) : ~lookups[i].raised
    /\ err # "lookup"
    /\ (pc = "scored" =>
            /\ (ret = None <=> Len(SuccessfulSamples) = 0)
            /\ (ret # None => ret[1].num_samples = Len(SuccessfulSamples)))
    /\ \A i \in 1..Len(scores) : scores[i].num_samples >= 1
    /\ \A i \in 1..Len(result) : result[i].num_samples >= 1

(***************************************************************************)
(* C4: the RouteScore score_route returns has, as avg_aqi, the arithmetic  *)
(* mean and, as max_aqi, the maximum of the successful samples only.       *)
(***************************************************************************)
C4_MeanAndMax ==
    pc = "scored" /\ ret # None =>
        /\ Len(SuccessfulSamples) >= 1
        /\ ret[1].avg_aqi.den > 0
        /\ ret[1].avg_aqi.num * Len(SuccessfulSamples)
               = SeqSum(SuccessfulSamples) * ret[1].avg_aqi.den
        /\ ret[1].max_aqi = SeqMax(SuccessfulSamples)
        /\ \A i \in 1..Len(SuccessfulSamples) :
               SuccessfulSamples[i] <= ret[1].max_aqi

\* a two-point route whose samples are 10 and 50: mean 30, max 50
C4_Witness ==
    /\ pc = "scored"
    /\ ret # None
    /\ Len(r_coords) = 2
    /\ SuccessfulSamples = <<10, 50>>
    /\ ret[1].avg_aqi.num = 30 * ret[1].avg_aqi.den
    /\ ret[1].max_aqi = 50

(***************************************************************************)
(* C5: sample_points(P, budget) returns exactly min(|P|, budget) points,   *)
(* the points of P at the 0-based indices 0, stride, 2*stride, ... with    *)
(* stride = max(1, floor(|P| / budget)); so P itself when |P| <= budget    *)
(* and exactly budget points when |P| > budget.                            *)
(***************************************************************************)
C5_SampleShape ==
    sp_pc = "done" =>
        LET stride == Max2(1, Len(sp_coords) \div sp_max)
        IN  /\ Len(sp_out) = Min2(Len(sp_coords), sp_max)
            /\ \A k \in 1..Len(sp_out) :
                   /\ (k - 1) * stride + 1 \in 1..Len(sp_coords)
                   /\ sp_out[k] = sp_coords[(k - 1) * stride + 1]
            /\ (Len(sp_coords) <= sp_max => sp_out = sp_coords)
            /\ (Len(sp_coords) > sp_max => Len(sp_out) = sp_max)

\* a polyline more than twice the budget: the stride is 2 and the tail of the
\* strided list is cut off
C5_Witness ==
    /\ sp_pc = "done"
    /\ sp_max = 10
    /\ Len(sp_coords) = 24
    /\ Len(sp_out) = 10
    /\ sp_out[10] = <<18, 0>>

(***************************************************************************)
(* Reading a suggest_best_travel_day run                                   *)
(***************************************************************************)
\* the forecast entries as parsed from the answer, before the merge
RawDays == SeqRange(forecast_days(f_resp.items, Today))

\* the merged days inside the window [today, today + look_ahead_days]
WindowDays ==
    {f \in SeqRange(all_fc) :
        Today <= f.date /\ f.date <= Today + look_ahead_days}

ForecastFetched == f_pc \in {"select", "returned"} \/ f_err = "window"

(***************************************************************************)
(* C6: the list airnow_forecast_zip returns is sorted by date ascending    *)
(* with at most one entry per date; every date of the raw entries has its  *)
(* entry, which is a raw entry of that date with the greatest index among  *)
(* the raw entries of that date.                                           *)
(***************************************************************************)
C6_MergeKeepsWorstPerDate ==
    ForecastFetched =>
        /\ \A i \in 1..(Len(all_fc) - 1) : all_fc[i].date < all_fc[i + 1].date
        /\ {all_fc[i].date : i \in 1..Len(all_fc)} = {r.date : r \in RawDays}
        /\ \A i \in 1..Len(all_fc) :
               /\ all_fc[i] \in RawDays
               /\ \A r \in RawDays :
                      r.date = all_fc[i].date => r.aqi <= all_fc[i].aqi

\* the answer (D1,40),(D1,55),(D2,20) merges to (D1,55),(D2,20)
C6_Witness ==
    /\ f_pc = "select"
    /\ Len(f_resp.items) = 3
    /\ forecast_days(f_resp.items, Today)
           = << [date |-> Today, aqi |-> 40], [date |-> Today, aqi |-> 55],
                [date |-> Today + 2, aqi |-> 20] >>
    /\ all_fc = << [date |-> Today, aqi |-> 55], [date |-> Today + 2, aqi |-> 20] >>

(***************************************************************************)
(* C7: the best day suggest_best_travel_day returns is one of the          *)
(* candidates, lies in [today, today + look_ahead_days], has the least     *)
(* index of all candidates and the earliest date among those with it.      *)
(***************************************************************************)
C7_BestDay ==
    f_pc = "returned" =>
        LET cands == SeqRange(f_plan[1].candidates)
            best == f_plan[1].best
        IN  /\ best \in cands
            /\ Today <= best.date
            /\ best.date <= Today + look_ahead_days
            /\ \A c \in cands : best.aqi <= c.aqi
            /\ \A c \in cands : c.aqi = best.aqi => best.date <= c.date

\* two candidates tied at the least index: the earlier one is the best day
C7_Witness ==
    /\ f_pc = "returned"
    /\ Len(f_plan[1].candidates) = 2
    /\ f_plan[1].candidates[1].aqi = f_plan[1].candidates[2].aqi
    /\ f_plan[1].best = f_plan[1].candidates[1]
    /\ f_plan[1].best.date < f_plan[1].candidates[2].date

(***************************************************************************)
(* C8: the candidates are exactly the merged days d with                   *)
(* today <= d <= today + look_ahead_days, in the merged order;             *)
(* suggest_best_travel_day raises if and only if there is none, and never  *)
(* returns an empty candidate list.                                        *)
(***************************************************************************)
C8_WindowAndFailure ==
    /\ (f_pc = "returned" =>
            /\ f_plan # None
            /\ f_plan[1].candidates # <<>>
            /\ SeqRange(f_plan[1].candidates) = WindowDays
            /\ Len(f_plan[1].candidates) = Cardinality(WindowDays)
            /\ \A i \in 1..(Len(f_plan[1].candidates) - 1) :
                   f_plan[1].candidates[i].date < f_plan[1].candidates[i + 1].date)
    /\ (f_pc \in {"returned", "raised"} => (f_pc = "raised" <=> WindowDays = {}))

\* merged days before, at both ends of, and after the window: the two at
\* the ends are the candidates
C8_Witness ==
    /\ f_pc = "returned"
    /\ look_ahead_days = 2
    /\ {f.date : f \in SeqRange(all_fc)} = {Today - 1, Today, Today + 2}
    /\ {f.date : f \in SeqRange(f_plan[1].candidates)} = {Today, Today + 2}

(***************************************************************************)
(* Reading a get_pediatric_care_stops run                                  *)
(***************************************************************************)
\* all_places, and the two lists drawn from it
AllPlaces == places_along_route(p_coords, p_resp, pediatric_max_results)

PediMatches == SelectSeq(AllPlaces, is_pediatric)

FallbackPlaces == SelectSeq(AllPlaces, is_fallback)

MergeInput == PediMatches \o FallbackPlaces

NamesOf(ps) == {ps[i].name : i \in 1..Len(ps)}

FirstSeen(ps, nm) ==
    CHOOSE i \in 1..Len(ps) :
        ps[i].name = nm /\ \A j \in 1..(i - 1) : ps[j].name # nm

PediatricReturned == p_pc = "pediatric_done" /\ p_err = NoErr

(***************************************************************************)
(* C9: get_pediatric_care_stops merges the hospital / clinic fallback in   *)
(* exactly when fewer than 3 places match a pediatric keyword; the merged  *)
(* result lists the pediatric matches before the fallback places, in       *)
(* first-seen order, with no place name twice; the result never has more   *)
(* than 10 entries.                                                        *)
(***************************************************************************)
C9_PediatricFallback ==
    PediatricReturned =>
        LET pedi == PediMatches
            input == pedi \o SelectSeq(AllPlaces, is_fallback)
            names == NamesOf(input)
            first == [nm \in names |-> FirstSeen(input, nm)]
            n == Len(p_out)
        IN  /\ n <= 10
            /\ IF Len(pedi) < 3
               THEN /\ \A i \in 1..n :
                           /\ p_out[i].name \in names
                           /\ p_out[i] = input[first[p_out[i].name]]
                    /\ \A i, j \in 1..n :
                           i < j => /\ p_out[i].name # p_out[j].name
                                    /\ first[p_out[i].name] < first[p_out[j].name]
                                    /\ (is_pediatric(p_out[j]) => is_pediatric(p_out[i]))
                    /\ n = Min2(10, Cardinality(names))
               ELSE /\ n = Min2(10, Len(pedi))
                    /\ \A i \in 1..n : is_pediatric(p_out[i]) /\ p_out[i] = pedi[i]

\* two pediatric clinics and twelve hospitals / clinics: the clinics are in
\* both lists, the merge holds fourteen names and ten are returned
C9_Witness ==
    /\ PediatricReturned
    /\ Len(PediMatches) = 2
    /\ Len(MergeInput) = 16
    /\ Cardinality(NamesOf(MergeInput)) = 14
    /\ Len(p_out) = 10
    /\ is_pediatric(p_out[2])
    /\ ~is_pediatric(p_out[3])

(***************************************************************************)
(* C10: whatever the places query does (network error, undecodable body,   *)
(* malformed payload, empty feature list, valid feature list),             *)
(* get_pediatric_care_stops and get_food_stops return a list and raise     *)
(* nothing; on an adapter failure or an empty answer the list is empty.    *)
(***************************************************************************)
C10_PlacesNeverRaise ==
    p_pc \in {"pediatric_done", "food_done"} =>
        /\ p_err = NoErr
        /\ (p_resp.kind # "object" \/ p_resp.features = <<>> => p_out = <<>>)

(***************************************************************************)
(* C11: in every script run that starts with a cached last plan and        *)
(* re-displays it without a new planning submission, no external service   *)
(* (geocode, route, pollution observation, forecast, places search) is     *)
(* called.                                                                 *)
(***************************************************************************)
C11_RedisplayMakesNoCalls ==
    (plan_at_start # None /\ ~submitted) => called = {}

(***************************************************************************)
(* C12: the cached last plan changes only at the end of a submission run   *)
(* in which both suggest_best_travel_day and plan_clean_routes_geoapify    *)
(* succeeded, and then it is the whole plan dict built from their results; *)
(* every cached plan has a non-empty routes list whose first entry is its  *)
(* best_route, and a best day that is one of its forecast candidates; a    *)
(* script run in which anything raised leaves the cached plan as it was    *)
(* when the run started.                                                   *)
(***************************************************************************)
C12_CacheWrittenWhole ==
    /\ last_plan # plan_at_start =>
          /\ s_pc = "rerun"
          /\ submitted
          /\ s_err = NoErr
          /\ [raised |-> FALSE, plan |-> forecast_plan] \in SessionForecastOutcomes
          /\ \E o \in SessionRouteOutcomes : ~o.raised /\ o.routes = routes
          /\ last_plan = Some(make_plan(forecast_plan[1], routes))
    /\ last_plan # None =>
          LET plan == last_plan[1]
          IN  /\ DOMAIN plan = {"forecast_candidates", "forecast_best_day",
                                "routes", "best_route"}
              /\ plan.routes # <<>>
              /\ plan.best_route = plan.routes[1]
              /\ \E i \in 1..Len(plan.forecast_candidates) :
                    plan.forecast_candidates[i] = plan.forecast_best_day
    /\ s_err # NoErr => last_plan = plan_at_start
    /\ s_pc \in {"top", "handle", "forecast_done", "routes_done", "end"} =>
          last_plan = plan_at_start

\* a second submission replaced a cached plan by another one that ranks
\* several routes whose first and last entries differ
C12_Witness ==
    /\ s_pc = "rerun"
    /\ plan_at_start # None
    /\ last_plan # plan_at_start
    /\ Len(last_plan[1].routes) >= 2
    /\ last_plan[1].routes[1] # last_plan[1].routes[Len(last_plan[1].routes)]
    /\ Len(last_plan[1].forecast_candidates) >= 2

(***************************************************************************)
(* C13: when a score_route call is over, the pollution lookup has been     *)
(* called exactly once for each sampled point, in order and without a      *)
(* retry, so that the number of lookups is min(|polyline|, 10) and at most *)
(* 10; the polyline is not changed, and a returned RouteScore holds the    *)
(* whole polyline, not the sample.                                         *)
(***************************************************************************)
C13_OneLookupPerSample ==
    pc \in {"scored", "raised"} =>
        /\ lookedUp = pts
        /\ Len(lookups) = Min2(Len(r_coords), max_samples_default)
        /\ Len(lookups) <= max_samples_default
        /\ pts = sample_points(r_coords, max_samples_default)
        /\ r_coords \in {LinePolyline(n) : n \in 1..MaxPolyLen}
        /\ (ret # None => ret[1].coords = r_coords)

====
